---- MODULE Spec2Model ----
(***************************************************************************)
(* Model of app.py (website change tracker): the three SQLite tables, the  *)
(* watch-list operations, the staleness decision, the snapshot store and   *)
(* archive operations, and the monitoring loop.                            *)
(*                                                                         *)
(* Time is counted in ticks.  TicksPerMinute ticks make one minute; a tick *)
(* that is a multiple of TicksPerMinute is a datetime whose microsecond    *)
(* field is 0, every other tick is a datetime with microseconds.  Every    *)
(* datetime.now() of the code is a reading of the clock of its own: the    *)
(* clock may advance between any two readings, so a call of                *)
(* monitor_website_changes is a sequence of steps, one per reading.        *)
(*                                                                         *)
(* The program has one thread and opens one connection (line 162): the     *)
(* tables are read and written by its calls only, one after the other.     *)
(* Other writers of website_content.db are not part of it.                 *)
(*                                                                         *)
(* The store is the one create_tables builds: urls has the single column   *)
(* url.  No statement of the program adds the column last_checked that     *)
(* update_urls, should_fetch_content and monitor_website_changes name, so  *)
(* these statements raise sqlite3.OperationalError.                        *)
(***************************************************************************)
EXTENDS Integers, Sequences, FiniteSets, TLC

VARIABLES urls_has_last_checked, urls, websites, website_archive, now, last, run

vars == <<urls_has_last_checked, urls, websites, website_archive, now, last, run>>

----------------------------------------------------------------------------
(* Bounds *)

MaxTime == 2
MaxUrls == 2
MaxWindow == 1
MaxArchive == 2

(* Program and modelling constants *)

TicksPerMinute == 2
MinWindow == 0 - 1

URL == {"A", "B"}
UrlOrder == <<"A", "B">>
Content == {"v1", "v2"}
None == "None"
NoException == "NoException"

UrlLists == UNION {[1..n -> URL] : n \in 0..MaxUrls}
Windows == MinWindow..MaxWindow

----------------------------------------------------------------------------
(* Tables.  urls is keyed by url (a function whose domain is the set of    *)
(* urls that have a row).  websites is the set of its rows, website_archive*)
(* the sequence of its rows in insertion order; a row is a record with the *)
(* columns url, timestamp, content_hash and content.                       *)

NoRows == [u \in {} |-> None]

Put(table, key, row) ==
    [k \in (DOMAIN table) \cup {key} |-> IF k = key THEN row ELSE table[k]]

Del(table, key) ==
    [k \in (DOMAIN table) \ {key} |-> table[k]]

Count(x, seq) == Cardinality({i \in 1..Len(seq) : seq[i] = x})

(* SELECT ... FROM websites WHERE url = ? *)
RowsOf(table, url) == {row \in table : row.url = url}

(* cursor.fetchone() on a result that has a row *)
fetchone(rows) == CHOOSE row \in rows : TRUE

----------------------------------------------------------------------------
(* datetime <-> TEXT.  sqlite3 stores a datetime parameter as               *)
(* str(datetime): "YYYY-MM-DD HH:MM:SS" when microsecond = 0 and            *)
(* "YYYY-MM-DD HH:MM:SS.ffffff" otherwise.  The text is modelled as a tuple *)
(* <<whole>> or <<whole, fraction>>.                                        *)

adapt_datetime(dt) ==
    IF dt % TicksPerMinute = 0
    THEN <<dt \div TicksPerMinute>>
    ELSE <<dt \div TicksPerMinute, dt % TicksPerMinute>>

(* datetime.strptime(text, '%Y-%m-%d %H:%M:%S.%f'): the fraction is        *)
(* mandatory in the format, a text without it raises ValueError.           *)
strptime(text) ==
    IF Len(text) = 2
    THEN [exc |-> NoException, value |-> text[1] * TicksPerMinute + text[2]]
    ELSE [exc |-> "ValueError", value |-> 0]

timedelta(minutes) == minutes * TicksPerMinute

(* hashlib.sha256(content.encode()).hexdigest(), first 8 hex digits *)
get_content_hash(content) ==
    CASE content = "v1" -> "3bfc2695"
      [] content = "v2" -> "fb04dcb6"
      [] content = ""   -> "e3b0c442"

(* requests.get + raise_for_status: a response is an error or a text *)
Responses == {[status |-> "error", text |-> ""]}
             \cup {[status |-> "ok", text |-> c] : c \in Content \cup {""}}

get_website_content(response) ==
    IF response.status = "error" THEN "" ELSE response.text

(* what a call of get_website_content can return *)
FetchedContents == {get_website_content(response) : response \in Responses}

----------------------------------------------------------------------------
(* Watch list *)

RECURSIVE update_urls_loop(_, _, _, _, _)
update_urls_loop(hasLC, urlsT, timestamp, new_urls, i) ==
    IF i > Len(new_urls) THEN urlsT
    ELSE IF ~hasLC
         THEN (* INSERT names a column the table lacks: sqlite3.Error,     *)
              (* caught and printed, the UPDATE is skipped                 *)
              update_urls_loop(hasLC, urlsT, timestamp, new_urls, i + 1)
         ELSE update_urls_loop(hasLC,
                               Put(urlsT, new_urls[i], adapt_datetime(timestamp)),
                               timestamp, new_urls, i + 1)

update_urls(hasLC, urlsT, clock, new_urls) ==
    update_urls_loop(hasLC, urlsT, clock, new_urls, 1)

RECURSIVE remove_urls_loop(_, _)
remove_urls_loop(urlsT, del_urls) ==
    IF del_urls = <<>> THEN urlsT
    ELSE remove_urls_loop(Del(urlsT, Head(del_urls)), Tail(del_urls))

(* mutant: a DELETE that removes no row is taken for a failure, as the     *)
(* assert of archive_old_website_content takes a missing row               *)
remove_urls_asserts_row(urlsT, del_urls) ==
    IF \E i \in 1..Len(del_urls) : del_urls[i] \notin DOMAIN urlsT
    THEN [exc |-> "AssertionError", urls |-> urlsT]
    ELSE [exc |-> NoException, urls |-> remove_urls_loop(urlsT, del_urls)]

(* DELETE of a url that has no row deletes nothing and raises nothing; a   *)
(* sqlite3.Error would be caught and printed (line 52)                     *)
remove_urls(urlsT, del_urls) ==
    [exc |-> NoException, urls |-> remove_urls_loop(urlsT, del_urls)]

(* SELECT url FROM urls reads the primary-key index: url order *)
get_all_urls(urlsT) ==
    SelectSeq(UrlOrder, LAMBDA u : u \in DOMAIN urlsT)

----------------------------------------------------------------------------
(* Staleness decision *)

(* Line 73 reads websites, line 75 reads the column last_checked (absent   *)
(* from the table create_tables makes), line 76 subscripts the row (None   *)
(* when the url is not in urls), line 81 returns for a url without         *)
(* snapshot, line 83 parses the stored text, line 85 compares.             *)
should_fetch_content(hasLC, urlsT, websitesT, clock, url, time_delta_minutes) ==
    LET hash_result == RowsOf(websitesT, url)
    IN
    IF ~hasLC
    THEN [exc |-> "OperationalError", ret |-> <<>>]
    ELSE IF url \notin DOMAIN urlsT
    THEN [exc |-> "TypeError", ret |-> <<>>]
    ELSE IF hash_result = {}
    THEN [exc |-> NoException, ret |-> <<TRUE, None>>]
    ELSE LET old_content_hash == fetchone(hash_result).content_hash
             parsed == strptime(urlsT[url])
             timestamp_now_minus_window == clock - timedelta(time_delta_minutes)
         IN  IF parsed.exc # NoException
             THEN [exc |-> parsed.exc, ret |-> <<>>]
             ELSE IF parsed.value < timestamp_now_minus_window
             THEN [exc |-> NoException, ret |-> <<TRUE, old_content_hash>>]
             ELSE [exc |-> NoException, ret |-> <<FALSE, None>>]

----------------------------------------------------------------------------
(* Snapshot store and archive.  Both return the tables and the exception   *)
(* raised, if any.                                                         *)

(* mutant: the websites table has no PRIMARY KEY, so the INSERT never      *)
(* conflicts                                                               *)
store_without_primary_key(websitesT, clock, url, content) ==
    [exc |-> NoException,
     websites |-> websitesT \cup {[url |-> url,
                                   timestamp |-> adapt_datetime(clock),
                                   content_hash |-> get_content_hash(content),
                                   content |-> content]}]

(* the INSERT of line 97 conflicts with a row of the same url (PRIMARY KEY *)
(* of line 12)                                                             *)
store_website_content(websitesT, clock, url, content) ==
    IF RowsOf(websitesT, url) # {}
    THEN [exc |-> "IntegrityError", websites |-> websitesT]
    ELSE [exc |-> NoException,
          websites |-> websitesT \cup {[url |-> url,
                                        timestamp |-> adapt_datetime(clock),
                                        content_hash |-> get_content_hash(content),
                                        content |-> content]}]

(* mutant: the row is copied to the archive but the DELETE is missing *)
archive_without_delete(websitesT, archiveT, url) ==
    IF RowsOf(websitesT, url) = {}
    THEN [exc |-> "TypeError", ret |-> None,
          websites |-> websitesT, website_archive |-> archiveT]
    ELSE LET data == fetchone(RowsOf(websitesT, url))
         IN  [exc |-> NoException, ret |-> data.content,
              websites |-> websitesT,
              website_archive |-> Append(archiveT, data)]

(* mutant: the archive keeps only the row archived last *)
archive_overwrites(websitesT, archiveT, url) ==
    IF RowsOf(websitesT, url) = {}
    THEN [exc |-> "TypeError", ret |-> None,
          websites |-> websitesT, website_archive |-> archiveT]
    ELSE LET data == fetchone(RowsOf(websitesT, url))
         IN  [exc |-> NoException, ret |-> data.content,
              websites |-> websitesT \ RowsOf(websitesT, url),
              website_archive |-> <<data>>]

archive_old_website_content(websitesT, archiveT, url) ==
    IF RowsOf(websitesT, url) = {}
    THEN (* data is None and data[3] is evaluated before the assert *)
         [exc |-> "TypeError", ret |-> None,
          websites |-> websitesT, website_archive |-> archiveT]
    ELSE LET data == fetchone(RowsOf(websitesT, url))
         IN  [exc |-> NoException, ret |-> data.content,
              websites |-> websitesT \ RowsOf(websitesT, url),
              website_archive |-> Append(archiveT, data)]

----------------------------------------------------------------------------
(* Monitoring loop.  One entry of the url list is handled in up to three   *)
(* steps, each with its own reading of the clock: the decision (lines      *)
(* 135-150: should_fetch_content with the now() of line 84, the fetch and  *)
(* the counters), the write of the snapshot (lines 147, 151-153, with the  *)
(* now() of line 94) and the stamp of last_checked (line 154).             *)

ZeroStats == [num_errors |-> 0, num_fetches |-> 0,
              num_changes |-> 0, num_new_pages |-> 0]

Bump(stats, field) == [stats EXCEPT ![field] = @ + 1]

(* UPDATE urls SET last_checked = now WHERE url = ? *)
update_last_checked(hasLC, urlsT, clock, url) ==
    IF ~hasLC THEN [exc |-> "OperationalError", urls |-> urlsT]
    ELSE IF url \in DOMAIN urlsT
    THEN [exc |-> NoException, urls |-> Put(urlsT, url, adapt_datetime(clock))]
    ELSE [exc |-> NoException, urls |-> urlsT]

(* what the decision leaves to do for the entry *)
Decision(exc, stats, todo, old_content_hash) ==
    [exc |-> exc, stats |-> stats, todo |-> todo,
     old_content_hash |-> old_content_hash]

(* Lines 135-150 without the writes: the decision of should_fetch_content  *)
(* at the clock reading of line 84, the fetch (current_content is what     *)
(* get_website_content returns if the URL is fetched) and the counters.    *)
(* todo is what remains for the entry: "raise" (the decision raised),      *)
(* "next" (skipped, or fetch failed and continue), "store" (new or changed *)
(* page: lines 147 / 151-153 and then 154), "stamp" (unchanged page: 154). *)
monitor_decide(hasLC, urlsT, websitesT, clock, stats, url, time_delta_minutes, current_content) ==
    LET sf == should_fetch_content(hasLC, urlsT, websitesT, clock, url,
                                   time_delta_minutes)
        fetched == Bump(stats, "num_fetches")
    IN
    IF sf.exc # NoException THEN Decision(sf.exc, stats, "raise", None)
    ELSE IF ~sf.ret[1] THEN Decision(NoException, stats, "next", None)
    ELSE IF current_content = ""
    THEN Decision(NoException, Bump(fetched, "num_errors"), "next", None)
    ELSE IF sf.ret[2] = None
    THEN Decision(NoException, Bump(fetched, "num_new_pages"), "store", None)
    ELSE IF sf.ret[2] # get_content_hash(current_content)
    THEN Decision(NoException, Bump(fetched, "num_changes"), "store", sf.ret[2])
    ELSE Decision(NoException, fetched, "stamp", sf.ret[2])

(* Line 147 (new page) or lines 151-153 (changed page): the old row is     *)
(* archived when there is an old hash, then the new row is stored with the *)
(* clock reading of line 94.                                               *)
monitor_store(websitesT, archiveT, clock, url, old_content_hash, current_content) ==
    LET archived == IF old_content_hash # None
                    THEN archive_old_website_content(websitesT, archiveT, url)
                    ELSE [exc |-> NoException, ret |-> None,
                          websites |-> websitesT, website_archive |-> archiveT]
        stored == store_website_content(archived.websites, clock, url,
                                        current_content)
    IN  IF archived.exc # NoException
        THEN [exc |-> archived.exc, websites |-> archived.websites,
              website_archive |-> archived.website_archive]
        ELSE [exc |-> stored.exc, websites |-> stored.websites,
              website_archive |-> archived.website_archive]

----------------------------------------------------------------------------
(* main: one run of the program.  The with block of line 162 is one        *)
(* transaction of the connection: leaving it normally commits what the     *)
(* cursor wrote, leaving it with an exception rolls it back.               *)

Tables(urlsT, websitesT, archiveT) ==
    [urls |-> urlsT, websites |-> websitesT, website_archive |-> archiveT]

(* sqlite3.Connection.__exit__ *)
connection_exit(before, txn, exc) ==
    IF exc = NoException THEN txn ELSE before

(* lines 164-165: the watch list after update_urls and remove_urls *)
main_urls(hasLC, urlsT, clock, new_urls, del_urls) ==
    remove_urls(update_urls(hasLC, urlsT, clock, new_urls), del_urls).urls

----------------------------------------------------------------------------
(* State machine.  last records the step that produced the state: a tick   *)
(* of the clock, a call that returned or raised (its name, the exception   *)
(* it raised and the value it returned), or a step of a call that is still *)
(* running (exc = Running).  run is the call of monitor_website_changes in *)
(* progress, if any: who called it, its arguments, the position in the url *)
(* list, the counters, what remains to do for the current entry, and the   *)
(* tables as they were when the call (for main: the transaction) began.    *)

Running == "Running"

Call(op, exc, ret) == [op |-> op, exc |-> exc, ret |-> ret]

Idle ==
    [pc |-> "idle", caller |-> "", url_list |-> <<>>, w |-> 0, i |-> 0,
     stats |-> ZeroStats, old_content_hash |-> None, current_content |-> "",
     before |-> Tables(NoRows, {}, <<>>)]

(* create_tables on an empty store: urls has the single column url *)
Init ==
    /\ urls_has_last_checked = FALSE
    /\ urls = NoRows
    /\ websites = {}
    /\ website_archive = <<>>
    /\ now = 0
    /\ last = Call("create_tables", NoException, <<>>)
    /\ run = Idle

(* the clock advances, between calls and between the steps of a call *)
Tick ==
    /\ now < MaxTime
    /\ now' = now + 1
    /\ last' = Call("tick", NoException, <<>>)
    /\ UNCHANGED <<urls_has_last_checked, urls, websites, website_archive,
                   run>>

UpdateUrls(new_urls) ==
    /\ run.pc = "idle"
    /\ urls' = update_urls(urls_has_last_checked, urls, now, new_urls)
    /\ last' = Call("update_urls", NoException, <<>>)
    /\ UNCHANGED <<urls_has_last_checked, websites, website_archive, now, run>>

RemoveUrls(del_urls) ==
    /\ run.pc = "idle"
    /\ \E r \in {remove_urls(urls, del_urls)} :
           /\ urls' = r.urls
           /\ last' = Call("remove_urls", r.exc, <<>>)
           /\ UNCHANGED <<urls_has_last_checked, websites, website_archive,
                          now, run>>

GetAllUrls ==
    /\ run.pc = "idle"
    /\ last' = Call("get_all_urls", NoException, <<get_all_urls(urls)>>)
    /\ UNCHANGED <<urls_has_last_checked, urls, websites, website_archive,
                   now, run>>

ShouldFetchContent(url, w) ==
    /\ run.pc = "idle"
    /\ \E r \in {should_fetch_content(urls_has_last_checked, urls, websites,
                                      now, url, w)} :
           /\ last' = Call("should_fetch_content", r.exc, r.ret)
           /\ UNCHANGED <<urls_has_last_checked, urls, websites,
                          website_archive, now, run>>

StoreWebsiteContent(url, content) ==
    /\ run.pc = "idle"
    /\ \E r \in {store_website_content(websites, now, url, content)} :
           /\ websites' = r.websites
           /\ last' = Call("store_website_content", r.exc, <<>>)
           /\ UNCHANGED <<urls_has_last_checked, urls, website_archive,
                          now, run>>

ArchiveOldWebsiteContent(url) ==
    /\ run.pc = "idle"
    /\ \E r \in {archive_old_website_content(websites, website_archive, url)} :
           /\ Len(r.website_archive) <= MaxArchive
           /\ websites' = r.websites
           /\ website_archive' = r.website_archive
           /\ last' = Call("archive_old_website_content", r.exc,
                           IF r.exc = NoException THEN <<r.ret>> ELSE <<>>)
           /\ UNCHANGED <<urls_has_last_checked, urls, now, run>>

(* The end of a step of the call in progress.  txn is what the cursor sees *)
(* after the step, exc the exception the step raised, r the call in        *)
(* progress after the step.  The call is over when the step raised or the  *)
(* url list is exhausted (line 156); for main the with block is then left  *)
(* (line 172) and the connection commits or rolls back.                    *)
EndOfStep(txn, exc, r) ==
    LET over == exc # NoException
                  \/ (r.pc = "decide" /\ r.i > Len(r.url_list))
        op == IF r.caller = "main" THEN "main" ELSE "monitor_website_changes"
        db == IF over /\ r.caller = "main"
              THEN connection_exit(r.before, txn, exc)
              ELSE txn
    IN  /\ urls' = db.urls
        /\ websites' = db.websites
        /\ website_archive' = db.website_archive
        /\ IF over
           THEN /\ run' = Idle
                /\ last' = Call(op, exc,
                                IF exc = NoException THEN <<r.stats>>
                                ELSE <<>>)
           ELSE /\ run' = r
                /\ last' = Call(op, Running, <<>>)
        /\ UNCHANGED <<urls_has_last_checked, now>>

(* lines 131-134: the call begins; with an empty list it returns at once *)
MonitorWebsiteChanges(url_list, w) ==
    /\ run.pc = "idle"
    /\ EndOfStep(Tables(urls, websites, website_archive), NoException,
                 [Idle EXCEPT !.pc = "decide", !.caller = "cursor",
                              !.url_list = url_list, !.w = w, !.i = 1,
                              !.before = Tables(urls, websites,
                                                website_archive)])

(* lines 163-166 and 131-134: a run of main begins, with the clock reading *)
(* of update_urls (line 36), and hands the watch list to                   *)
(* monitor_website_changes                                                 *)
Main(new_urls, del_urls, w) ==
    /\ run.pc = "idle"
    /\ \E kept \in {main_urls(urls_has_last_checked, urls, now, new_urls,
                              del_urls)} :
           EndOfStep(Tables(kept, websites, website_archive), NoException,
                     [Idle EXCEPT !.pc = "decide", !.caller = "main",
                                  !.url_list = get_all_urls(kept),
                                  !.w = w, !.i = 1,
                                  !.before = Tables(urls, websites,
                                                    website_archive)])

(* lines 135-150 for the current entry; a fetch that would make the        *)
(* archive grow beyond MaxArchive rows is not drawn                        *)
MonitorDecide(current_content) ==
    /\ run.pc = "decide"
    /\ \E d \in {monitor_decide(urls_has_last_checked, urls, websites, now,
                                run.stats, run.url_list[run.i], run.w,
                                current_content)} :
           /\ (d.todo = "store" /\ d.old_content_hash # None)
                  => Len(website_archive) < MaxArchive
           /\ EndOfStep(Tables(urls, websites, website_archive), d.exc,
                        IF d.todo = "next"
                        THEN [run EXCEPT !.stats = d.stats, !.i = @ + 1]
                        ELSE [run EXCEPT !.stats = d.stats, !.pc = d.todo,
                                         !.old_content_hash = d.old_content_hash,
                                         !.current_content = current_content])

(* line 147, or lines 151-153 *)
MonitorStore ==
    /\ run.pc = "store"
    /\ \E s \in {monitor_store(websites, website_archive, now,
                               run.url_list[run.i], run.old_content_hash,
                               run.current_content)} :
           EndOfStep(Tables(urls, s.websites, s.website_archive), s.exc,
                     [run EXCEPT !.pc = "stamp"])

(* line 154, the end of the entry *)
MonitorStamp ==
    /\ run.pc = "stamp"
    /\ \E s \in {update_last_checked(urls_has_last_checked, urls, now,
                                     run.url_list[run.i])} :
           EndOfStep(Tables(s.urls, websites, website_archive), s.exc,
                     [run EXCEPT !.pc = "decide", !.i = @ + 1,
                                 !.old_content_hash = None,
                                 !.current_content = ""])

(* The program on the store create_tables builds: every function of the   *)
(* module called on the cursor, and runs of main.  The steps MonitorStore  *)
(* and MonitorStamp are not among the disjuncts: on this store the         *)
(* decision of every entry raises (DecisionAlwaysRaises below), so no call *)
(* comes to store or to stamp.                                             *)
Next ==
    \/ Tick
    \/ \E new_urls \in UrlLists : UpdateUrls(new_urls)
    \/ \E del_urls \in UrlLists : RemoveUrls(del_urls)
    \/ GetAllUrls
    \/ \E url \in URL, w \in Windows : ShouldFetchContent(url, w)
    \/ \E url \in URL, content \in Content : StoreWebsiteContent(url, content)
    \/ \E url \in URL : ArchiveOldWebsiteContent(url)
    \/ \E url_list \in UrlLists, w \in Windows :
          MonitorWebsiteChanges(url_list, w)
    \/ \E new_urls \in UrlLists, del_urls \in UrlLists, w \in Windows :
          Main(new_urls, del_urls, w)
    \/ \E current_content \in FetchedContents : MonitorDecide(current_content)

Spec == Init /\ [][Next]_vars

----------------------------------------------------------------------------
(* Helpers for the properties *)

InList(u, list) == \E i \in 1..Len(list) : list[i] = u

SameRow(table1, table2, key) ==
    /\ (key \in DOMAIN table1) = (key \in DOMAIN table2)
    /\ key \in DOMAIN table1 => table1[key] = table2[key]

ArchiveRowsOf(archiveT, u) == SelectSeq(archiveT, LAMBDA row : row.url = u)

Row(u, timestamp, content) ==
    [url |-> u, timestamp |-> timestamp,
     content_hash |-> get_content_hash(content), content |-> content]

Stats(fetches, errors, new_pages, changes) ==
    [num_errors |-> errors, num_fetches |-> fetches,
     num_changes |-> changes, num_new_pages |-> new_pages]

(* the datetime a stored text stands for *)
TimeOf(text) ==
    text[1] * TicksPerMinute + (IF Len(text) = 2 THEN text[2] ELSE 0)

Watched(u) == u \in DOMAIN urls
HasSnapshot(u) == RowsOf(websites, u) # {}

(* the websites row of a url that has one *)
Snapshot(u) == fetchone(RowsOf(websites, u))

(* time since u was last checked *)
Elapsed(u) == now - TimeOf(urls[u])

(* more than w minutes have passed since every time the store records for  *)
(* u: the time its snapshot was stored at and, if u has a urls row, its    *)
(* last_checked                                                            *)
WindowElapsed(u, w) ==
    /\ HasSnapshot(u)
    /\ now - TimeOf(Snapshot(u).timestamp) > timedelta(w)
    /\ Watched(u) => Elapsed(u) > timedelta(w)

(* the step has raised *)
Raised(call) == call.exc \notin {NoException, Running}

(* the entry of the url list the call in progress is at *)
Entry == run.url_list[run.i]

(* the call in progress is over the one-entry list <<u>> *)
RunOver(u) == run.pc # "idle" /\ run.url_list = <<u>>

(* the counters after a step that did not raise: those the call returned   *)
(* if the step was its last, those of the call in progress otherwise       *)
StatsAfter == IF run'.pc = "idle" THEN last'.ret[1] ELSE run'.stats

----------------------------------------------------------------------------
(* What the missing column does to the program (lemmas).                   *)

(* no url ever gets a urls row, and no call of monitor_website_changes     *)
(* gets beyond the decision of its first entry                             *)
NothingWatchedNothingStored ==
    /\ ~urls_has_last_checked
    /\ urls = NoRows
    /\ run.pc \in {"idle", "decide"}
    /\ run.pc = "decide" =>
          /\ run.i = 1
          /\ run.stats = ZeroStats
          /\ run.caller = "cursor"
          /\ run.url_list # <<>>

(* the decision of an entry raises OperationalError (line 75), whatever    *)
(* the entry, the window, the clock and the network, and writes nothing    *)
DecisionAlwaysRaises ==
    [][\A c \in FetchedContents :
          MonitorDecide(c) =>
              /\ last' = Call("monitor_website_changes", "OperationalError",
                              <<>>)
              /\ run' = Idle
              /\ UNCHANGED <<urls, websites, website_archive>>]_vars

(* a call of monitor_website_changes returns counters only for the empty   *)
(* list, and they are zero                                                 *)
OnlyTheEmptyListReturns ==
    [][(last'.op = "monitor_website_changes" /\ last'.exc = NoException) =>
          /\ run.pc = "idle"
          /\ MonitorWebsiteChanges(<<>>, run'.w)
          /\ last'.ret = <<ZeroStats>>
          /\ UNCHANGED <<urls, websites, website_archive>>]_vars

(* a run of main adds nothing to the watch list (update_urls swallows the  *)
(* error of line 39), so it evaluates the empty list: it returns four      *)
(* zeros, raises nothing and writes nothing                                *)
MainEvaluatesNothing ==
    [][last'.op = "main" =>
          /\ last' = Call("main", NoException, <<ZeroStats>>)
          /\ run.pc = "idle" /\ run' = Idle
          /\ UNCHANGED <<urls, websites, website_archive>>]_vars

----------------------------------------------------------------------------
(* C1: on a store initialised by create_tables, after update_urls was      *)
(* called with a list that contains u (once or several times),             *)
(* get_all_urls lists u exactly once.                                      *)
C1_AddedUrlListedOnce ==
    [][\A new_urls \in UrlLists :
          UpdateUrls(new_urls) =>
              \A i \in 1..Len(new_urls) :
                  Count(new_urls[i], get_all_urls(urls')) = 1]_vars

----------------------------------------------------------------------------
----------------------------------------------------------------------------
(* C3: new page.  monitor_website_changes is run over the list <<u>>, u    *)
(* has no websites row and the fetch returns a non-empty content c: the    *)
(* run decides to fetch, stores and stamps, whatever the clock reads at    *)
(* each of these, and returns num_fetches = 1, num_new_pages = 1,          *)
(* num_changes = 0, num_errors = 0; it leaves exactly one websites row for *)
(* u, carrying c and hash(c), and appends nothing to website_archive,      *)
(* which holds no row for u.                                               *)
C3_NewPage ==
    [][\A u \in URL :
          (RunOver(u) /\ RowsOf(run.before.websites, u) = {}) =>
              /\ \A c \in Content :
                    (run.pc = "decide" /\ MonitorDecide(c)) =>
                        /\ run'.pc = "store"
                        /\ run'.current_content = c
              /\ (run.pc = "store" /\ MonitorStore) => run'.pc = "stamp"
              /\ (run.pc = "stamp" /\ MonitorStamp) =>
                    /\ last'.exc = NoException
                    /\ last'.ret = <<Stats(1, 0, 1, 0)>>
                    /\ run.current_content \in Content
                    /\ \E t \in 0..MaxTime :
                          websites' = run.before.websites
                             \cup {Row(u, adapt_datetime(t),
                                       run.current_content)}
                    /\ website_archive' = run.before.website_archive
                    /\ ArchiveRowsOf(website_archive', u) = <<>>]_vars

----------------------------------------------------------------------------
(* C4: changed page.  u has a websites row, more than W >= 0 minutes have  *)
(* passed since it was stored and since u was last checked when the run    *)
(* over <<u>> takes its decision, and the fetch returns a content whose    *)
(* hash differs from the stored one: the run appends exactly one archive   *)
(* row carrying the old row, leaves exactly one websites row for u         *)
(* carrying the new content and its hash, and returns num_changes = 1,     *)
(* num_new_pages = 0.                                                      *)
ChangedPageDecision(u, c) ==
    /\ run.pc = "decide"
    /\ run.url_list = <<u>>
    /\ run.w >= 0
    /\ WindowElapsed(u, run.w)
    /\ get_content_hash(c) # Snapshot(u).content_hash

ChangedPageRun(u) ==
    /\ run.url_list = <<u>>
    /\ run.old_content_hash # None
    /\ run.old_content_hash # get_content_hash(run.current_content)

ChangedPageOutcome(u) ==
    /\ (run.pc = "store" /\ ChangedPageRun(u) /\ MonitorStore) =>
          /\ run'.pc = "stamp"
          /\ website_archive' = Append(website_archive, Snapshot(u))
          /\ websites' = (websites \ RowsOf(websites, u))
                            \cup {Row(u, adapt_datetime(now),
                                      run.current_content)}
          /\ urls' = urls
    /\ (run.pc = "stamp" /\ ChangedPageRun(u) /\ MonitorStamp) =>
          /\ last'.exc = NoException
          /\ last'.ret = <<Stats(1, 0, 0, 1)>>
          /\ website_archive' =
                Append(run.before.website_archive,
                       fetchone(RowsOf(run.before.websites, u)))
          /\ RowsOf(websites', u) = {Snapshot(u)}
          /\ Snapshot(u).content = run.current_content
          /\ Snapshot(u).content_hash = get_content_hash(run.current_content)
          /\ websites' = websites

C4_ChangedPage ==
    [][\A u \in URL :
          /\ \A c \in Content :
                (ChangedPageDecision(u, c) /\ MonitorDecide(c)) =>
                    /\ last'.exc = Running
                    /\ run'.pc = "store"
                    /\ run'.stats = Stats(1, 0, 0, 1)
                    /\ run'.current_content = c
                    /\ run'.old_content_hash = Snapshot(u).content_hash
                    /\ UNCHANGED <<urls, websites, website_archive>>
          /\ ChangedPageOutcome(u)]_vars

----------------------------------------------------------------------------
(* C5: unchanged page.  u has a websites row, more than W >= 0 minutes     *)
(* have passed since it was stored and since u was last checked when the   *)
(* run over <<u>> takes its decision, and the fetch returns the stored     *)
(* content: the run leaves websites and website_archive as they were,      *)
(* returns num_fetches = 1 with the other three counters 0, and sets       *)
(* last_checked of u to the time of the stamp.                             *)
UnchangedPageDecision(u, c) ==
    /\ run.pc = "decide"
    /\ run.url_list = <<u>>
    /\ run.w >= 0
    /\ WindowElapsed(u, run.w)
    /\ get_content_hash(c) = Snapshot(u).content_hash

UnchangedPageOutcome(u) ==
    (/\ run.pc = "stamp"
     /\ run.url_list = <<u>>
     /\ run.old_content_hash = get_content_hash(run.current_content)
     /\ MonitorStamp) =>
        /\ last'.exc = NoException
        /\ last'.ret = <<Stats(1, 0, 0, 0)>>
        /\ websites' = run.before.websites
        /\ website_archive' = run.before.website_archive
        /\ Watched(u)
        /\ urls' = Put(run.before.urls, u, adapt_datetime(now))
        /\ TimeOf(urls'[u]) = now

C5_UnchangedPage ==
    [][\A u \in URL :
          /\ \A c \in Content :
                (UnchangedPageDecision(u, c) /\ MonitorDecide(c)) =>
                    /\ last'.exc = Running
                    /\ run'.pc = "stamp"
                    /\ run'.stats = Stats(1, 0, 0, 0)
                    /\ run'.old_content_hash = get_content_hash(c)
                    /\ run'.current_content = c
                    /\ UNCHANGED <<urls, websites, website_archive>>
          /\ UnchangedPageOutcome(u)]_vars

----------------------------------------------------------------------------
(* C6: failed fetch.  monitor_website_changes is at an entry u that is to  *)
(* be fetched (u has no snapshot, or its window has elapsed) and           *)
(* get_website_content returns the empty failure value: num_errors grows   *)
(* by one, no exception is raised, and the websites row of u, its          *)
(* website_archive rows and its last_checked are what they were before the *)
(* cycle, whether or not u has a snapshot.                                 *)
FetchTriggered(u, w) == ~HasSnapshot(u) \/ WindowElapsed(u, w)

C6_FailedFetch ==
    [][\A u \in URL :
          (/\ run.pc = "decide"
           /\ Entry = u
           /\ FetchTriggered(u, run.w)
           /\ MonitorDecide("")) =>
              /\ ~Raised(last')
              /\ StatsAfter.num_errors = run.stats.num_errors + 1
              /\ StatsAfter.num_fetches = run.stats.num_fetches + 1
              /\ RowsOf(websites', u) = RowsOf(run.before.websites, u)
              /\ ArchiveRowsOf(website_archive', u)
                    = ArchiveRowsOf(run.before.website_archive, u)
              /\ SameRow(urls', run.before.urls, u)]_vars

----------------------------------------------------------------------------
(* C7: u has a snapshot that was stored less than W minutes ago, W > 0:    *)
(* should_fetch_content(u, W) returns (false, none), and when              *)
(* monitor_website_changes with window W comes to an entry u it attempts   *)
(* no fetch and goes on.                                                   *)
FreshSnapshot(u, w) ==
    /\ HasSnapshot(u)
    /\ w > 0
    /\ now - TimeOf(Snapshot(u).timestamp) < timedelta(w)

C7_FreshSnapshotNotFetched ==
    [][\A u \in URL :
          /\ \A w \in Windows :
                (FreshSnapshot(u, w) /\ ShouldFetchContent(u, w)) =>
                    /\ last'.exc = NoException
                    /\ last'.ret = <<FALSE, None>>
          /\ (/\ run.pc = "decide"
              /\ Entry = u
              /\ FreshSnapshot(u, run.w)
              /\ \E c \in FetchedContents : MonitorDecide(c)) =>
                    /\ ~Raised(last')
                    /\ StatsAfter = run.stats]_vars

----------------------------------------------------------------------------
(* C8: for a URL u with a websites row, should_fetch_content(u, W) returns *)
(* a pair, (true, stored content_hash) or (false, none): the first when    *)
(* now - last_checked >= W, the case now - last_checked = W included, the  *)
(* second otherwise; the stored content_hash is the hash of the stored     *)
(* content.                                                                *)
C8_FetchIffWindowElapsed ==
    [][\A u \in URL, w \in Windows :
          (HasSnapshot(u) /\ ShouldFetchContent(u, w)) =>
              /\ last'.exc = NoException
              /\ Snapshot(u).content_hash
                    = get_content_hash(Snapshot(u).content)
              /\ last'.ret \in {<<TRUE, Snapshot(u).content_hash>>,
                                <<FALSE, None>>}
              /\ Watched(u) =>
                    last'.ret = IF Elapsed(u) >= timedelta(w)
                                THEN <<TRUE, Snapshot(u).content_hash>>
                                ELSE <<FALSE, None>>]_vars

----------------------------------------------------------------------------
(* C9: for a URL u that has no websites row, should_fetch_content returns  *)
(* (true, none), whatever the window and whatever is recorded in urls.     *)
C9_NoSnapshotAlwaysFetched ==
    [][\A u \in URL, w \in Windows :
          (~HasSnapshot(u) /\ ShouldFetchContent(u, w)) =>
              /\ last'.exc = NoException
              /\ last'.ret = <<TRUE, None>>]_vars

----------------------------------------------------------------------------
(* C10: store_website_content(u, c) for a URL without a websites row       *)
(* writes the row (now, hash(c), c); archive_old_website_content(u) on a   *)
(* URL that has a row appends exactly that row (same content, hash and     *)
(* timestamp) to website_archive, deletes the websites row and returns the *)
(* row's content.  Store followed by archive therefore leaves one more     *)
(* archive row for u, equal to the row written, and returns c.             *)
C10_StoreThenArchive ==
    [][/\ \A u \in URL, c \in Content :
            (~HasSnapshot(u) /\ StoreWebsiteContent(u, c)) =>
                /\ last'.exc = NoException
                /\ websites' = websites \cup {Row(u, adapt_datetime(now), c)}
                /\ RowsOf(websites', u) = {Row(u, adapt_datetime(now), c)}
                /\ website_archive' = website_archive
       /\ \A u \in URL :
            (HasSnapshot(u) /\ ArchiveOldWebsiteContent(u)) =>
                /\ last'.exc = NoException
                /\ last'.ret = <<Snapshot(u).content>>
                /\ RowsOf(websites', u) = {}
                /\ websites' = websites \ {Snapshot(u)}
                /\ Len(website_archive') = Len(website_archive) + 1
                /\ Len(ArchiveRowsOf(website_archive', u))
                      = Len(ArchiveRowsOf(website_archive, u)) + 1
                /\ LET row == website_archive'[Len(website_archive')]
                   IN  /\ row.url = u
                       /\ row.timestamp = Snapshot(u).timestamp
                       /\ row.content_hash = Snapshot(u).content_hash
                       /\ row.content = Snapshot(u).content
                /\ \A i \in 1..Len(website_archive) :
                      website_archive'[i] = website_archive[i]]_vars

(* archive_old_website_content has just returned "v1" for A: the archive   *)
(* holds the one row that was stored for A and websites holds none         *)
C10_Witness ==
    /\ last.op = "archive_old_website_content"
    /\ last.ret = <<"v1">>
    /\ ~HasSnapshot("A")
    /\ Len(website_archive) = 1
    /\ website_archive[1].url = "A"
    /\ website_archive[1].content = "v1"
    /\ website_archive[1].content_hash = get_content_hash("v1")

----------------------------------------------------------------------------
----------------------------------------------------------------------------
(* C15: website_archive is append-only.  No step of any operation deletes  *)
(* or modifies an existing row (the old archive is a prefix of the new     *)
(* one) or appends more than one row.  A row is appended exactly when a    *)
(* websites row is superseded (leaves websites, deleted or replaced), and  *)
(* it is that row, one per supersession.                                   *)
IsPrefix(s, t) ==
    /\ Len(s) <= Len(t)
    /\ \A i \in 1..Len(s) : t[i] = s[i]

C15_ArchiveAppendOnly ==
    [][/\ IsPrefix(website_archive, website_archive')
       /\ Len(website_archive') <= Len(website_archive) + 1
       /\ (website_archive' # website_archive) = (websites \ websites' # {})
       /\ \A row \in websites \ websites' :
             website_archive' = Append(website_archive, row)]_vars

(* archive_old_website_content has just archived the "v2" row of A, stored *)
(* after its "v1" row was archived: the archive holds both, in that order  *)
C15_Witness ==
    /\ last.op = "archive_old_website_content"
    /\ last.exc = NoException
    /\ last.ret = <<"v2">>
    /\ Len(website_archive) = 2
    /\ website_archive[1].url = "A"
    /\ website_archive[1].content = "v1"
    /\ website_archive[2].url = "A"
    /\ website_archive[2].content = "v2"
    /\ websites = {}

----------------------------------------------------------------------------
(* C16: archive_old_website_content called for a URL that has no websites  *)
(* row fails with the assertion error of its precondition, and with no     *)
(* other kind of error, and changes neither websites nor website_archive.  *)
C16_ArchiveMissingRowPreconditionError ==
    [][\A u \in URL :
          (~HasSnapshot(u) /\ ArchiveOldWebsiteContent(u)) =>
              /\ last'.exc = "AssertionError"
              /\ websites' = websites
              /\ website_archive' = website_archive]_vars

(* what the call does: it raises, with TypeError, and changes nothing *)
ArchiveMissingRowRaisesTypeError ==
    [][\A u \in URL :
          (~HasSnapshot(u) /\ ArchiveOldWebsiteContent(u)) =>
              /\ last' = Call("archive_old_website_content", "TypeError", <<>>)
              /\ websites' = websites
              /\ website_archive' = website_archive]_vars

====
